---- MODULE Spec2Model ----
(***************************************************************************)
(* Model of pyncoda/ncoda_07a_generate_hui.py: class generate_hui_functions *)
(* (the publish gate return_dataservice_id and the community pipeline       *)
(* generate_hui_v2_for_incore), with the IN-CORE catalog as environment.    *)
(***************************************************************************)
EXTENDS Integers, Sequences, FiniteSets, TLC

VARIABLES
    catalog,               \* IN-CORE datasets: sequence of [id, title, fileDescriptors]
    communities,           \* self.communities, in key order
    seed,                  \* self.seed
    pc,                    \* position inside generate_hui_v2_for_incore
    ci,                    \* index of the community of the outer loop
    ki,                    \* index of the county of the inner loop
    gate,                  \* the latest return_dataservice_id call made by the pipeline
    dataset_id,            \* local dataset_id of generate_hui_v2_for_incore
    hui_incore_county_df,  \* dict FIPS -> county table, in insertion order
    hui_incore_df,         \* the concatenated table
    hui_incore_df_fixed,   \* the table after the '.0' removal
    files,                 \* paths written by the current run
    errStage,              \* stage whose exception ended the run
    log,                   \* stages the current run went through
    runs,                  \* number of generate_hui_v2_for_incore calls so far
    calls,                 \* the last two direct return_dataservice_id calls since the last run
    published,             \* (title, filename, id) uploaded by earlier runs
    tbl,                   \* input cells of the '.0' removal (cell-level check)
    pass1,                 \* result of one application
    pass2,                 \* result of a second application
    npass                  \* number of applications done

vars == <<catalog, communities, seed, pc, ci, ki, gate, dataset_id,
          hui_incore_county_df, hui_incore_df, hui_incore_df_fixed, files,
          errStage, log, runs, calls, published, tbl, pass1, pass2, npass>>

pipelineVars == <<catalog, communities, seed, pc, ci, ki, gate, dataset_id,
                  hui_incore_county_df, hui_incore_df, hui_incore_df_fixed,
                  files, errStage, log, runs, calls, published>>

cellVars == <<tbl, pass1, pass2, npass>>

(***************************************************************************)
(* Bounds of the model.                                                     *)
(***************************************************************************)
MaxRuns == 2
RowsPerCounty == 2
CellsPerTable == 2

(***************************************************************************)
(* Cells of a table and the lambda of line 223.                             *)
(* A cell is [kind, num, text]: an int (num), a float with one decimal      *)
(* (num is the value in tenths), NaN, or a string (text, one character per  *)
(* element).                                                                *)
(***************************************************************************)
IntCell(n) == [kind |-> "int", num |-> n, text |-> <<>>]
FloatCell(tenths) == [kind |-> "float", num |-> tenths, text |-> <<>>]
NaNCell == [kind |-> "nan", num |-> 0, text |-> <<>>]
StrCell(t) == [kind |-> "str", num |-> 0, text |-> t]
ValueError == [kind |-> "ValueError", num |-> 0, text |-> <<>>]

DigitChar == <<"0", "1", "2", "3", "4", "5", "6", "7", "8", "9">>

RECURSIVE Digits(_)
Digits(n) ==
    IF n < 10 THEN <<DigitChar[n + 1]>>
    ELSE Digits(n \div 10) \o <<DigitChar[(n % 10) + 1]>>

Abs(n) == IF n < 0 THEN -n ELSE n

\* str(cell)
Str(cell) ==
    CASE cell.kind = "int" ->
            (IF cell.num < 0 THEN <<"-">> ELSE <<>>) \o Digits(Abs(cell.num))
      [] cell.kind = "float" ->
            (IF cell.num < 0 THEN <<"-">> ELSE <<>>)
                \o Digits(Abs(cell.num) \div 10)
                \o <<".">> \o <<DigitChar[(Abs(cell.num) % 10) + 1]>>
      [] cell.kind = "nan" -> <<"n", "a", "n">>
      [] OTHER -> cell.text

\* str(cell).endswith('.0')
EndsWithDot0(s) ==
    /\ Len(s) >= 2
    /\ s[Len(s) - 1] = "."
    /\ s[Len(s)] = "0"

IsDigit(ch) == \E d \in 1..10 : DigitChar[d] = ch

DigitValue(ch) == (CHOOSE d \in 1..10 : DigitChar[d] = ch) - 1

RECURSIVE DigitsValue(_)
DigitsValue(s) ==
    IF s = <<>> THEN 0
    ELSE 10 * DigitsValue(SubSeq(s, 1, Len(s) - 1)) + DigitValue(s[Len(s)])

\* the text is an integer literal: an optional sign and one or more digits
IsIntLiteral(s) ==
    LET body == IF s # <<>> /\ s[1] \in {"-", "+"} THEN Tail(s) ELSE s
    IN  /\ body # <<>>
        /\ \A i \in 1..Len(body) : IsDigit(body[i])

\* int(cell): truncation of a float, the parse of a string (ValueError
\* when the text is no integer literal), ValueError for NaN
IntOf(cell) ==
    CASE cell.kind = "int" -> cell
      [] cell.kind = "float" ->
            IntCell(IF cell.num < 0 THEN -(Abs(cell.num) \div 10)
                    ELSE cell.num \div 10)
      [] cell.kind = "str" ->
            IF IsIntLiteral(cell.text)
            THEN LET neg == cell.text[1] = "-"
                     body == IF cell.text[1] \in {"-", "+"}
                             THEN Tail(cell.text) ELSE cell.text
                 IN  IntCell(IF neg THEN -DigitsValue(body)
                             ELSE DigitsValue(body))
            ELSE ValueError
      [] OTHER -> ValueError

\* lambda cell: int(cell) if str(cell).endswith('.0') else cell
RemoveDot0(cell) == IF EndsWithDot0(Str(cell)) THEN IntOf(cell) ELSE cell

\* DataFrame.applymap over a sequence of cells: the exception of one cell
\* ends the whole call (ok = FALSE)
ApplymapCells(cells) ==
    LET out == [i \in 1..Len(cells) |-> RemoveDot0(cells[i])]
    IN  IF \E i \in 1..Len(out) : out[i] = ValueError
        THEN [ok |-> FALSE, cells |-> <<>>]
        ELSE [ok |-> TRUE, cells |-> out]

(***************************************************************************)
(* Configurations the program is constructed with.                          *)
(***************************************************************************)
Joplin ==
    [key |-> "joplin", community_name |-> <<"Joplin">>,
     counties |-> << [FIPS |-> "29097", Name |-> "Jasper County, MO"],
                     [FIPS |-> "29145", Name |-> "Newton County, MO"] >>]

\* a community whose name extends the other's, and whose county list
\* carries one FIPS code twice
JoplinMetro ==
    [key |-> "joplin_metro", community_name |-> <<"Joplin", "Metro">>,
     counties |-> << [FIPS |-> "29097", Name |-> "Jasper County, MO"],
                     [FIPS |-> "29145", Name |-> "Newton County, MO"],
                     [FIPS |-> "29097", Name |-> "Jasper County (Joplin city), MO"] >>]

CommunityMaps == { <<Joplin>>, <<Joplin, JoplinMetro>>, <<JoplinMetro, Joplin>> }

Seeds == {"9876", "1234"}

version_text == "v2-0-0"

basevintage == "2010"

\* title = "Housing Unit Inventory v2.0.0 data for "+community_name
Title(c) == <<"Housing Unit Inventory v2.0.0 data for">> \o c.community_name

\* output_filename = f'hui_{version_text}_{community}_{basevintage}_rs{seed}'
OutputFilename(c, s) == <<"hui", version_text, c.key, basevintage, "rs", s>>

\* output_filename+'.csv'
CsvName(output_filename) == output_filename \o <<".csv">>

(***************************************************************************)
(* The publish gate.                                                        *)
(***************************************************************************)
Returned(i) == [tag |-> "return", id |-> i]
ReturnedNone == [tag |-> "None", id |-> 0]
Raised == [tag |-> "raise", id |-> 0]

\* what the operator types at input("Enter dataset number: "); Unasked
\* when the prompt is never reached
IntInput(i) == [kind |-> "int", num |-> i]
TextInput == [kind |-> "text", num |-> 0]
Unasked == [kind |-> "unasked", num |-> 0]

IsPrefix(p, t) == Len(p) <= Len(t) /\ SubSeq(t, 1, Len(p)) = p

\* check_file_on_incore: the catalog's text search, here every dataset
\* whose title starts with the searched text, in catalog order
CheckFileOnIncore(cat, title) ==
    SelectSeq(cat, LAMBDA d : IsPrefix(title, d.title))

\* the inputs the environment can supply to one call: none is read unless
\* the search matched several datasets; there the listing loop of lines
\* 161-162 can raise before the prompt (Unasked), or the operator types a
\* number (negative and too large ones included) or other text
OperatorInputs(match_count) ==
    IF match_count > 1
    THEN {IntInput(i) : i \in (-1)..match_count} \cup {TextInput, Unasked}
    ELSE {Unasked}

\* Python's seq[i] for -Len(seq) <= i < Len(seq)
PyIndexable(seq, i) == -Len(seq) <= i /\ i < Len(seq)
PyIndex(seq, i) == IF i >= 0 THEN seq[i + 1] ELSE seq[Len(seq) + i + 1]

\* the title and filename test of line 142 with the '.csv' suffix left out
MatchesWithoutCsv(dataset, title, output_filename) ==
    /\ dataset.title = title
    /\ dataset.fileDescriptors[1] = output_filename

\* line 142
Matches(dataset, title, output_filename) ==
    /\ dataset.title = title
    /\ dataset.fileDescriptors[1] = CsvName(output_filename)

\* the branch of lines 159-165 taking the first listed dataset
SelectFirst(matched, input) == Returned(matched[1].id)

\* lines 159-165: the id at the index the operator typed; every other
\* input, and a listing loop that raised, ends in an exception
SelectDataset(matched, input) ==
    IF input.kind = "int" /\ PyIndexable(matched, input.num)
    THEN Returned(PyIndex(matched, input.num).id)
    ELSE Raised

\* return_dataservice_id
ReturnDataserviceId(cat, title, output_filename, input) ==
    LET matched == CheckFileOnIncore(cat, title)
        match_count == Len(matched)
    IN  IF match_count = 1
        THEN LET dataset == matched[1]
             IN  IF dataset.fileDescriptors = <<>>
                 THEN Raised            \* ['fileDescriptors'][0]: IndexError
                 ELSE IF Matches(dataset, title, output_filename)
                      THEN Returned(dataset.id)
                      ELSE ReturnedNone
        ELSE IF match_count = 0
             THEN ReturnedNone
             ELSE SelectDataset(matched, input)

\* one call of return_dataservice_id, with what it saw and returned
CallRec(cat, title, output_filename, input, pub) ==
    [made |-> TRUE, title |-> title, fn |-> output_filename,
     matched |-> CheckFileOnIncore(cat, title), input |-> input,
     result |-> ReturnDataserviceId(cat, title, output_filename, input),
     pub |-> pub]

NoCall ==
    [made |-> FALSE, title |-> <<>>, fn |-> <<>>, matched |-> <<>>,
     input |-> Unasked, result |-> ReturnedNone, pub |-> {}]

(***************************************************************************)
(* The pipeline generate_hui_v2_for_incore.                                 *)
(***************************************************************************)
\* one entry of the run's log: the stage, the community index, the county
\* index (0 outside the county loop) and, for a check, what it returned
Event(ev, c, k, r) == [ev |-> ev, c |-> c, k |-> k, r |-> r]

\* the decision after the gate with a found dataset skipping only the
\* community at hand
GateSkipCommunity(result, i, n) ==
    IF result.tag = "raise" THEN [pc |-> "error", ci |-> i]
    ELSE IF result.tag = "return"
         THEN IF i < n THEN [pc |-> "check", ci |-> i + 1]
              ELSE [pc |-> "done", ci |-> i]
         ELSE [pc |-> "county", ci |-> i]

\* lines 182-187: an exception ends the run, an id is returned from the
\* whole function, None goes on to the county loop
GateNext(result, i, n) ==
    IF result.tag = "raise" THEN [pc |-> "error", ci |-> i]
    ELSE IF result.tag = "return" THEN [pc |-> "done", ci |-> i]
         ELSE [pc |-> "county", ci |-> i]

\* the two values of the housing unit rows the model carries: a code that a
\* join left as 4.0 and an income of 45231.5
CellOf(r) == IF r = 1 THEN FloatCell(40) ELSE FloatCell(452315)

\* the table that run_hui_workflow, final_polish_hui and
\* save_incore_version2 return for one county entry: its rows, known here
\* only as the result of a workflow built from state_county and
\* state_county_name (two entries with the same FIPS code and different
\* names are two workflows)
CountyTable(county) ==
    [r \in 1..RowsPerCounty |->
        [fips |-> county.FIPS, name |-> county.Name, unit |-> r,
         cell |-> CellOf(r)]]

\* a list of the county tables in place of the dict: every entry appended
DictAppend(d, key, value) == Append(d, [key |-> key, value |-> value])

\* hui_incore_county_df[state_county] = ...: a new key goes last, a key
\* already present keeps its position and takes the new value
DictSet(d, key, value) ==
    IF \E i \in 1..Len(d) : d[i].key = key
    THEN [i \in 1..Len(d) |->
            IF d[i].key = key THEN [key |-> key, value |-> value] ELSE d[i]]
    ELSE Append(d, [key |-> key, value |-> value])

\* pd.concat(hui_incore_county_df.values(), ignore_index=True, axis=0)
RECURSIVE PdConcat(_)
PdConcat(d) == IF d = <<>> THEN <<>> ELSE Head(d).value \o PdConcat(Tail(d))

\* the county loop ending after its first county
CountyLoopDoneEarly(k, n) == k >= 1

\* the loop of line 190 has run its last county
CountyLoopDone(k, n) == k >= n

\* hui_incore_df.applymap(...) on the rows' cells
Applymap(rows) ==
    LET res == ApplymapCells([i \in 1..Len(rows) |-> rows[i].cell])
    IN  [ok |-> res.ok,
         rows |-> IF res.ok
                  THEN [i \in 1..Len(rows) |->
                           [rows[i] EXCEPT !.cell = res.cells[i]]]
                  ELSE <<>>]

\* the statement order with the upload placed before the file writes
StageAfterUploadFirst(stage) ==
    CASE stage = "concat" -> "fix"
      [] stage = "fix" -> "create"
      [] stage = "create" -> "attach"
      [] OTHER -> "done"

\* the statement order of lines 219-300
StageAfter(stage) ==
    CASE stage = "concat" -> "fix"
      [] stage = "fix" -> "write1"
      [] stage = "write1" -> "write2"
      [] stage = "write2" -> "codebook"
      [] stage = "codebook" -> "create"
      [] stage = "create" -> "attach"
      [] OTHER -> "done"

Community == communities[ci]
title == Title(Community)
output_filename == OutputFilename(Community, seed)

\* an exception leaves generate_hui_v2_for_incore at this stage
Abort(stage) ==
    /\ pc' = "error"
    /\ errStage' = stage

Resting == pc \in {"idle", "done", "error"}

\* __init__ and the call of generate_hui_v2_for_incore
NewRun(m, s) ==
    /\ Resting
    /\ runs < MaxRuns
    /\ communities' = m
    /\ seed' = s
    /\ pc' = "check"
    /\ ci' = 1
    /\ ki' = 0
    /\ gate' = NoCall
    /\ dataset_id' = ReturnedNone
    /\ hui_incore_county_df' = <<>>
    /\ hui_incore_df' = <<>>
    /\ hui_incore_df_fixed' = <<>>
    /\ files' = {}
    /\ errStage' = ""
    /\ log' = <<>>
    /\ runs' = runs + 1
    /\ calls' = <<>>
    /\ UNCHANGED <<catalog, published>>
    /\ UNCHANGED cellVars

\* the two most recent entries of a call history
LastTwo(h) == IF Len(h) > 2 THEN SubSeq(h, Len(h) - 1, Len(h)) ELSE h

\* a direct call of return_dataservice_id for a community of the instance
PublishCheck(c) ==
    /\ Resting
    /\ runs > 0
    /\ \E input \in OperatorInputs(Len(CheckFileOnIncore(catalog, Title(c)))) :
          calls' = LastTwo(Append(calls, CallRec(catalog, Title(c),
                                                 OutputFilename(c, seed),
                                                 input, published)))
    /\ UNCHANGED <<catalog, communities, seed, pc, ci, ki, gate, dataset_id,
                   hui_incore_county_df, hui_incore_df, hui_incore_df_fixed,
                   files, errStage, log, runs, published>>
    /\ UNCHANGED cellVars

\* lines 172-187
Check ==
    /\ pc = "check"
    /\ \E input \in OperatorInputs(Len(CheckFileOnIncore(catalog, title))) :
          LET rec == CallRec(catalog, title, output_filename, input, published)
              nxt == GateNext(rec.result, ci, Len(communities))
          IN  /\ gate' = rec
              /\ dataset_id' = rec.result
              /\ pc' = nxt.pc
              /\ ci' = nxt.ci
              /\ ki' = IF nxt.pc = "county" THEN 1 ELSE ki
              /\ errStage' = IF nxt.pc = "error" THEN "check" ELSE errStage
              /\ log' = Append(log, Event("check", ci, 0, rec.result.tag))
    /\ hui_incore_county_df' = <<>>
    /\ UNCHANGED <<catalog, communities, seed, hui_incore_df,
                   hui_incore_df_fixed, files, runs, calls, published>>
    /\ UNCHANGED cellVars

\* lines 190-216, one county
County ==
    /\ pc = "county"
    /\ LET county == Community.counties[ki]
       IN  \/ /\ hui_incore_county_df' =
                    DictSet(hui_incore_county_df, county.FIPS,
                            CountyTable(county))
              /\ log' = Append(log, Event("county", ci, ki, ""))
              /\ IF CountyLoopDone(ki, Len(Community.counties))
                 THEN pc' = "concat" /\ ki' = ki
                 ELSE pc' = pc /\ ki' = ki + 1
              /\ UNCHANGED errStage
           \/ /\ Abort("county")
              /\ UNCHANGED <<hui_incore_county_df, log, ki>>
    /\ UNCHANGED <<catalog, communities, seed, ci, gate, dataset_id,
                   hui_incore_df, hui_incore_df_fixed, files, runs, calls,
                   published>>
    /\ UNCHANGED cellVars

\* lines 219-220
Concatenate ==
    /\ pc = "concat"
    /\ IF hui_incore_county_df = <<>>
       THEN /\ Abort("concat")      \* No objects to concatenate
            /\ UNCHANGED <<hui_incore_df, log>>
       ELSE /\ hui_incore_df' = PdConcat(hui_incore_county_df)
            /\ log' = Append(log, Event("concat", ci, 0, ""))
            /\ pc' = StageAfter("concat")
            /\ UNCHANGED errStage
    /\ UNCHANGED <<catalog, communities, seed, ci, ki, gate, dataset_id,
                   hui_incore_county_df, hui_incore_df_fixed, files, runs,
                   calls, published>>
    /\ UNCHANGED cellVars

\* lines 222-223
FinalizeTypes ==
    /\ pc = "fix"
    /\ LET res == Applymap(hui_incore_df)
       IN  IF res.ok
           THEN /\ hui_incore_df_fixed' = res.rows
                /\ log' = Append(log, Event("fix", ci, 0, ""))
                /\ pc' = StageAfter("fix")
                /\ UNCHANGED errStage
           ELSE /\ Abort("fix")
                /\ UNCHANGED <<hui_incore_df_fixed, log>>
    /\ UNCHANGED <<catalog, communities, seed, ci, ki, gate, dataset_id,
                   hui_incore_county_df, hui_incore_df, files, runs, calls,
                   published>>
    /\ UNCHANGED cellVars

\* lines 225-228: to_csv at the run-specific path
WriteRunFile ==
    /\ pc = "write1"
    /\ \/ /\ files' = files \cup {<<"top", CsvName(output_filename)>>}
          /\ log' = Append(log, Event("write1", ci, 0, ""))
          /\ pc' = StageAfter("write1")
          /\ UNCHANGED errStage
       \/ /\ Abort("write1")
          /\ UNCHANGED <<files, log>>
    /\ UNCHANGED <<catalog, communities, seed, ci, ki, gate, dataset_id,
                   hui_incore_county_df, hui_incore_df, hui_incore_df_fixed,
                   runs, calls, published>>
    /\ UNCHANGED cellVars

\* lines 230-232: to_csv in the common directory
WriteCommonFile ==
    /\ pc = "write2"
    /\ \/ /\ files' = files \cup {<<"common", CsvName(output_filename)>>}
          /\ log' = Append(log, Event("write2", ci, 0, ""))
          /\ pc' = StageAfter("write2")
          /\ UNCHANGED errStage
       \/ /\ Abort("write2")
          /\ UNCHANGED <<files, log>>
    /\ UNCHANGED <<catalog, communities, seed, ci, ki, gate, dataset_id,
                   hui_incore_county_df, hui_incore_df, hui_incore_df_fixed,
                   runs, calls, published>>
    /\ UNCHANGED cellVars

\* lines 234-268: figures and codebook
Codebook ==
    /\ pc = "codebook"
    /\ \/ /\ log' = Append(log, Event("codebook", ci, 0, ""))
          /\ pc' = StageAfter("codebook")
          /\ UNCHANGED errStage
       \/ /\ Abort("codebook")
          /\ UNCHANGED log
    /\ UNCHANGED <<catalog, communities, seed, ci, ki, gate, dataset_id,
                   hui_incore_county_df, hui_incore_df, hui_incore_df_fixed,
                   files, runs, calls, published>>
    /\ UNCHANGED cellVars

\* lines 286-296: create_dataset
CreateDataset ==
    /\ pc = "create"
    /\ \/ /\ catalog' = Append(catalog,
                               [id |-> Len(catalog) + 1, title |-> title,
                                fileDescriptors |-> <<>>])
          /\ dataset_id' = Returned(Len(catalog) + 1)
          /\ log' = Append(log, Event("create", ci, 0, ""))
          /\ pc' = StageAfter("create")
          /\ UNCHANGED errStage
       \/ /\ Abort("create")
          /\ UNCHANGED <<catalog, dataset_id, log>>
    /\ UNCHANGED <<communities, seed, ci, ki, gate, hui_incore_county_df,
                   hui_incore_df, hui_incore_df_fixed, files, runs, calls,
                   published>>
    /\ UNCHANGED cellVars

\* lines 298-306: add_files_to_dataset, then the next community or the
\* return of the last dataset_id
AttachFiles ==
    /\ pc = "attach"
    /\ \/ /\ catalog' =
                [catalog EXCEPT ![dataset_id.id].fileDescriptors =
                                    <<CsvName(output_filename)>>]
          /\ published' =
                published \cup {<<title, output_filename, dataset_id.id>>}
          /\ log' = Append(log, Event("attach", ci, 0, ""))
          /\ IF ci < Len(communities)
             THEN pc' = "check" /\ ci' = ci + 1
             ELSE pc' = "done" /\ ci' = ci
          /\ UNCHANGED errStage
       \/ /\ Abort("attach")
          /\ UNCHANGED <<catalog, published, log, ci>>
    /\ UNCHANGED <<communities, seed, ki, gate, dataset_id,
                   hui_incore_county_df, hui_incore_df, hui_incore_df_fixed,
                   files, runs, calls>>
    /\ UNCHANGED cellVars

Init ==
    /\ catalog = <<>>
    /\ communities = <<Joplin>>
    /\ seed = "9876"
    /\ pc = "idle"
    /\ ci = 1
    /\ ki = 0
    /\ gate = NoCall
    /\ dataset_id = ReturnedNone
    /\ hui_incore_county_df = <<>>
    /\ hui_incore_df = <<>>
    /\ hui_incore_df_fixed = <<>>
    /\ files = {}
    /\ errStage = ""
    /\ log = <<>>
    /\ runs = 0
    /\ calls = <<>>
    /\ published = {}
    /\ tbl = <<>>
    /\ pass1 = [ok |-> TRUE, cells |-> <<>>]
    /\ pass2 = [ok |-> TRUE, cells |-> <<>>]
    /\ npass = 0

Next ==
    \/ \E m \in CommunityMaps, s \in Seeds : NewRun(m, s)
    \/ \E i \in 1..Len(communities) : PublishCheck(communities[i])
    \/ Check
    \/ County
    \/ Concatenate
    \/ FinalizeTypes
    \/ WriteRunFile
    \/ WriteCommonFile
    \/ Codebook
    \/ CreateDataset
    \/ AttachFiles

Spec == Init /\ [][Next]_vars

(***************************************************************************)
(* The '.0' removal on its own: cells drawn from CellUniverse, the step     *)
(* applied once and then once more to its own result.                       *)
(***************************************************************************)
CellUniverse ==
    { IntCell(4), IntCell(0), IntCell(-3),
      FloatCell(40), FloatCell(452315), FloatCell(-20), FloatCell(5),
      FloatCell(0), NaNCell,
      StrCell(<<"B", "3", "7">>), StrCell(<<"1", "2">>),
      StrCell(<<"4", ".", "0">>) }

InitCells ==
    /\ catalog = <<>>
    /\ communities = <<Joplin>>
    /\ seed = "9876"
    /\ pc = "idle"
    /\ ci = 1
    /\ ki = 0
    /\ gate = NoCall
    /\ dataset_id = ReturnedNone
    /\ hui_incore_county_df = <<>>
    /\ hui_incore_df = <<>>
    /\ hui_incore_df_fixed = <<>>
    /\ files = {}
    /\ errStage = ""
    /\ log = <<>>
    /\ runs = 0
    /\ calls = <<>>
    /\ published = {}
    /\ tbl \in [1..CellsPerTable -> CellUniverse]
    /\ pass1 = [ok |-> TRUE, cells |-> <<>>]
    /\ pass2 = [ok |-> TRUE, cells |-> <<>>]
    /\ npass = 0

\* line 223 applied to the table
FirstPass ==
    /\ npass = 0
    /\ pass1' = ApplymapCells(tbl)
    /\ npass' = 1
    /\ UNCHANGED <<tbl, pass2>>
    /\ UNCHANGED pipelineVars

\* line 223 applied to its own result
SecondPass ==
    /\ npass = 1
    /\ pass1.ok
    /\ pass2' = ApplymapCells(pass1.cells)
    /\ npass' = 2
    /\ UNCHANGED <<tbl, pass1>>
    /\ UNCHANGED pipelineVars

NextCells == FirstPass \/ SecondPass

SpecCells == InitCells /\ [][NextCells]_vars

(***************************************************************************)
(* Properties.                                                              *)
(***************************************************************************)
Has(ev, c) == \E i \in 1..Len(log) : log[i].ev = ev /\ log[i].c = c

\* the county indices the workflow ran for community c, in log order
CountiesRun(c) ==
    LET evs == SelectSeq(log, LAMBDA e : e.c = c /\ e.ev = "county")
    IN  [i \in 1..Len(evs) |-> evs[i].k]

\* gate describes the check of the community the run is at
GateCurrent == gate.made /\ pc # "check"

\* every return_dataservice_id call the state remembers
RememberedCalls ==
    {calls[i] : i \in 1..Len(calls)} \cup (IF gate.made THEN {gate} ELSE {})

\* the search returned exactly one entry, with the title and with
\* output_filename + '.csv' as its first file
FoundCase(call) ==
    /\ Len(call.matched) = 1
    /\ call.matched[1].title = call.title
    /\ call.matched[1].fileDescriptors # <<>>
    /\ call.matched[1].fileDescriptors[1] = call.fn \o <<".csv">>

\* C1: when the search returns exactly one entry whose title is the title
\* and whose first file is output_filename + '.csv', return_dataservice_id
\* returns that entry's id, and generate_hui_v2_for_incore ends there: no
\* county workflow, no CSV file and no catalog dataset for that community.
C1_FoundSkipsRegeneration ==
    /\ \A call \in RememberedCalls :
          FoundCase(call) => call.result = Returned(call.matched[1].id)
    /\ (GateCurrent /\ FoundCase(gate)) =>
          /\ pc = "done"
          /\ dataset_id = Returned(gate.matched[1].id)
          /\ \A i \in 1..Len(log) : log[i].c = ci => log[i].ev = "check"
          /\ <<"top", gate.fn \o <<".csv">>>> \notin files
          /\ <<"common", gate.fn \o <<".csv">>>> \notin files
          /\ \A i \in 1..Len(catalog) :
                catalog[i].title = gate.title =>
                    \E j \in 1..Len(gate.matched) :
                        gate.matched[j] = catalog[i]

C1_Witness ==
    /\ GateCurrent
    /\ FoundCase(gate)
    /\ pc = "done"
    /\ runs = 2

\* the operator typed a number that indexes the listed datasets
ValidSelection(call) ==
    /\ call.input.kind = "int"
    /\ -Len(call.matched) <= call.input.num
    /\ call.input.num < Len(call.matched)

\* C2: when the search returns more than one entry, the only id
\* return_dataservice_id can return is the one at the index the operator
\* typed; without such a selection it returns no id; and the pipeline
\* starts no regeneration for that community.
C2_AmbiguousNeverAutoSelects ==
    /\ \A call \in RememberedCalls :
          Len(call.matched) > 1 =>
              /\ call.result.tag = "return" =>
                    /\ ValidSelection(call)
                    /\ call.result.id =
                          (IF call.input.num >= 0
                           THEN call.matched[call.input.num + 1]
                           ELSE call.matched[Len(call.matched)
                                             + call.input.num + 1]).id
              /\ ~ValidSelection(call) => call.result.tag = "raise"
    /\ (GateCurrent /\ Len(gate.matched) > 1) =>
          /\ pc \in {"done", "error"}
          /\ \A i \in 1..Len(log) : log[i].c = ci => log[i].ev = "check"

C2_Witness ==
    /\ GateCurrent
    /\ Len(gate.matched) > 1
    /\ pc \in {"done", "error"}

\* C3: when the search returns no entry, return_dataservice_id returns
\* None and the pipeline runs the county workflow for the community's
\* counties in county-list order; concatenation starts only after the
\* workflow of the last county has produced its table.
C3_AbsentGeneratesInOrder ==
    /\ \A call \in RememberedCalls :
          call.matched = <<>> => call.result = ReturnedNone
    /\ (GateCurrent /\ gate.matched = <<>>) =>
          LET n == Len(Community.counties)
              ran == CountiesRun(ci)
          IN  /\ pc # "idle"
              /\ pc = "done" => Has("attach", ci)
              /\ Len(ran) <= n
              /\ \A j \in 1..Len(ran) : ran[j] = j
              /\ pc = "county" => ki = Len(ran) + 1
              /\ (pc \notin {"county", "error"} \/ Has("concat", ci)) =>
                    /\ Len(ran) = n
                    /\ Len(hui_incore_county_df) >= 1
              /\ \A i, j \in 1..Len(log) :
                    (log[i].c = ci /\ log[j].c = ci /\ log[i].ev = "county"
                        /\ log[j].ev = "concat") => i < j

C3_Witness ==
    /\ GateCurrent
    /\ gate.matched = <<>>
    /\ pc = "fix"
    /\ Len(Community.counties) = 3
    /\ CountiesRun(ci) = <<1, 2, 3>>

\* a dataset for (title, output_filename) is in the catalog
DatasetExists(t, fn) ==
    \E i \in 1..Len(catalog) :
        /\ catalog[i].title = t
        /\ catalog[i].fileDescriptors = <<fn \o <<".csv">>>>

\* C4: in any catalog state holding a dataset for (title, output_filename),
\* two consecutive calls of return_dataservice_id(title, output_filename)
\* with no generation between them return the same id, and leave the
\* pipeline at rest.
C4_ConsecutiveChecksAgree ==
    \A i \in 1..(Len(calls) - 1) :
        (/\ calls[i].title = calls[i + 1].title
         /\ calls[i].fn = calls[i + 1].fn
         /\ DatasetExists(calls[i].title, calls[i].fn)) =>
            /\ calls[i].result.tag = "return"
            /\ calls[i + 1].result = calls[i].result
            /\ Resting

StageOrder ==
    <<"concat", "fix", "write1", "write2", "codebook", "create", "attach">>

\* the stages after the county loop that community c went through
StagesOf(c) ==
    LET evs == SelectSeq(log, LAMBDA e : e.c = c /\ e.ev \notin {"check", "county"})
    IN  [i \in 1..Len(evs) |-> evs[i].ev]

\* C5: for each generated community the stages occur in the order county
\* workflows, concatenate, finalize types, write run-specific file, write
\* common file, and the catalog dataset is created only after both files
\* are written; when a county workflow or one of the two writes fails, the
\* run ends with no catalog dataset created for that community.
C5_StageOrder ==
    /\ \A c \in 1..Len(communities) :
          /\ Len(StagesOf(c)) <= Len(StageOrder)
          /\ \A i \in 1..Len(StagesOf(c)) : StagesOf(c)[i] = StageOrder[i]
          /\ \A i, j \in 1..Len(log) :
                (log[i].c = c /\ log[j].c = c /\ log[i].ev = "county"
                    /\ log[j].ev \notin {"check", "county"}) => i < j
          /\ Has("create", c) =>
                /\ <<"top", OutputFilename(communities[c], seed) \o <<".csv">>>>
                      \in files
                /\ <<"common", OutputFilename(communities[c], seed) \o <<".csv">>>>
                      \in files
    /\ (pc = "error" /\ errStage \in {"county", "write1", "write2"}) =>
          /\ ~Has("create", ci)
          /\ \A i \in 1..Len(catalog) :
                catalog[i].title = title =>
                    \E j \in 1..Len(gate.matched) : gate.matched[j] = catalog[i]

C5_Witness ==
    /\ pc = "attach"
    /\ StagesOf(ci) = <<"concat", "fix", "write1", "write2", "codebook", "create">>
    /\ catalog[Len(catalog)].title = title

RECURSIVE Flatten(_)
Flatten(tables) ==
    IF tables = <<>> THEN <<>> ELSE Head(tables) \o Flatten(Tail(tables))

\* the tables of all county entries of the community, in county-list order
TablesOfAllEntries ==
    Flatten([k \in 1..Len(Community.counties) |->
                CountyTable(Community.counties[k])])

\* the number of times a row occurs in a table
Occurrences(row, table) == Cardinality({i \in 1..Len(table) : table[i] = row})

\* C6 as stated: the concatenated table is the tables of all county entries
\* in county-list order, each row of each entry's table exactly once.
C6_EveryEntryConcatenated ==
    Has("concat", ci) =>
        /\ hui_incore_df = TablesOfAllEntries
        /\ \A k \in 1..Len(Community.counties) :
              \A r \in 1..RowsPerCounty :
                  Occurrences(CountyTable(Community.counties[k])[r],
                              hui_incore_df) = 1

\* positions of the county list at which a FIPS code appears first
FirstSeen ==
    LET cs == Community.counties
    IN  SelectSeq([k \in 1..Len(cs) |-> k],
                  LAMBDA k : \A j \in 1..(k - 1) : cs[j].FIPS # cs[k].FIPS)

\* the last county entry carrying the FIPS code of entry k
LastWithFipsOf(k) ==
    LET cs == Community.counties
    IN  CHOOSE m \in 1..Len(cs) :
            /\ cs[m].FIPS = cs[k].FIPS
            /\ \A j \in (m + 1)..Len(cs) : cs[j].FIPS # cs[k].FIPS

\* C6 amended: the concatenated table holds one table per distinct FIPS
\* code, in the order in which the codes first appear in the county list,
\* and that table is the one of the last county entry with the code; each
\* row of these tables occurs exactly once, no housing unit (FIPS, unit)
\* occurs twice, and the rows of an entry whose FIPS code comes again later
\* in the list under another name are not in the table.
C6_OneTablePerFips ==
    Has("concat", ci) =>
        LET cs == Community.counties
        IN  /\ hui_incore_df =
                  Flatten([i \in 1..Len(FirstSeen) |->
                              CountyTable(cs[LastWithFipsOf(FirstSeen[i])])])
            /\ \A i, j \in 1..Len(hui_incore_df) :
                  (/\ hui_incore_df[i].fips = hui_incore_df[j].fips
                   /\ hui_incore_df[i].unit = hui_incore_df[j].unit) => i = j
            /\ \A k \in 1..Len(cs) :
                  \A r \in 1..RowsPerCounty :
                      Occurrences(CountyTable(cs[k])[r], hui_incore_df) =
                          (IF cs[LastWithFipsOf(k)].Name = cs[k].Name
                           THEN 1 ELSE 0)

C6_Witness ==
    /\ pc = "fix"
    /\ Has("concat", ci)
    /\ Len(FirstSeen) < Len(Community.counties)
    /\ Len(hui_incore_df) = 2 * RowsPerCounty

\* C7: after generate_hui_v2_for_incore ends with the error of a county
\* workflow, of the first write or of the second write, neither output
\* path of the community holds a file written by that run.
C7_NoLeftoverOutput ==
    (pc = "error" /\ errStage \in {"county", "write1", "write2"}) =>
        /\ <<"top", output_filename \o <<".csv">>>> \notin files
        /\ <<"common", output_filename \o <<".csv">>>> \notin files

\* C8: the '.0' removal maps each cell on its own: a cell whose text ends
\* in '.0' becomes the integer of equal value, every other cell is returned
\* as it is, and a second application changes nothing.
C8_TypeNormalization ==
    /\ npass >= 1 =>
          /\ pass1.ok
          /\ \A i \in 1..Len(tbl) :
                IF EndsWithDot0(Str(tbl[i]))
                THEN /\ pass1.cells[i].kind = "int"
                     /\ tbl[i].kind = "float" =>
                            10 * pass1.cells[i].num = tbl[i].num
                ELSE pass1.cells[i] = tbl[i]
    /\ npass = 2 => pass2 = pass1

\* C9: once a run has uploaded the dataset for (title, output_filename),
\* every later publish check for the same pair returns that id, without
\* operator input.
C9_PublishedStaysFound ==
    \A call \in RememberedCalls :
        \A p \in call.pub :
            (p[1] = call.title /\ p[2] = call.fn) =>
                /\ call.result = Returned(p[3])
                /\ call.input = Unasked

\* the checks of the run, in log order
Checks == SelectSeq(log, LAMBDA e : e.ev = "check")

\* C10 as stated: a run that returns normally has checked every community
\* of the map, and has generated, written and uploaded each community whose
\* check returned no id.
C10_EveryCommunityProcessed ==
    pc = "done" =>
        /\ Len(Checks) = Len(communities)
        /\ \A j \in 1..Len(Checks) :
              /\ Checks[j].c = j
              /\ Checks[j].r = "None" =>
                    (Has("write1", j) /\ Has("write2", j) /\ Has("attach", j))

\* C10 amended: a run that returns normally has checked, in map order, the
\* communities up to and including the first whose check returned an id
\* (all of them when no check did); each community whose check returned no
\* id has been generated, written and uploaded; a check that returns an id
\* ends the whole run, the communities after it are not checked.
C10_ProcessedUpToFirstFound ==
    pc = "done" =>
        LET m == Len(Checks)
        IN  /\ m >= 1
            /\ m <= Len(communities)
            /\ \A j \in 1..m :
                  /\ Checks[j].c = j
                  /\ Checks[j].r = "None" =>
                        (Has("write1", j) /\ Has("write2", j) /\ Has("attach", j))
                  /\ j < m => Checks[j].r = "None"
            /\ Checks[m].r = "return" \/ m = Len(communities)
            /\ Checks[m].r = "return" =>
                  /\ dataset_id = gate.result
                  /\ \A i \in 1..Len(log) : log[i].c >= m => log[i].ev = "check"

C10_Witness ==
    /\ pc = "done"
    /\ Len(communities) = 2
    /\ Len(Checks) = 1
    /\ Checks[1].r = "return"

====
